---- MODULE Spec2Model ----
(***************************************************************************)
(* Model of the term-ai interactive chat session (internal/chat), its      *)
(* conversation store (internal/context) and the streaming provider.       *)
(*                                                                         *)
(* Strings are sequences of one-character strings, so that prefix tests,   *)
(* splitting and line scanning are computed as the Go code computes them.  *)
(* File paths are sequences of path tokens (name, extension).              *)
(***************************************************************************)
EXTENDS Integers, Sequences, FiniteSets, TLC

VARIABLES
    m,        \* the chatModel value currently held by the bubbletea runtime
    h,        \* the chatModel the commandHandler points to (c.m)
    ctx,      \* ctxManager.messages, the Manager shared by m and h
    fs,       \* the file system: full path -> file content, or NoFile
    gw,       \* the provider's stream goroutine and its HTTP response
    worker,   \* the tea.Cmd goroutine started by Update
    inbox,    \* messages delivered to the event loop, not yet handled
    status,   \* "running", "quit" (tea.Quit returned) or "panic"
    clipboard,\* the system clipboard
    last      \* the event handled last (history, for stating properties)

vars == <<m, h, ctx, fs, gw, worker, inbox, status, clipboard, last>>

----------------------------------------------------------------------------
(* Bounds of the model *)

MaxStoreMsgs == 2      \* messages added to a manager (StoreSpec)
MaxFileLines == 4      \* lines of a file that Save is still applied to (StoreSpec)
MaxTranscript == 4     \* messages in the session's manager (Spec)
MaxScreen == 14        \* entries of a screen buffer (Spec)
MaxInputLines == 2     \* lines of the input buffer (Spec)
MaxHistory == 6        \* screen entries of earlier commands (PersistSpec)
MaxAttachHistory == 2  \* lines of the handler's screen buffer before a send key (AttachSpec)
MaxInput == 3          \* runes of the input buffer after a paste (ComposeSpec)
MaxComposeTranscript == 1  \* messages of the transcript before a send key (ComposeSpec)
MaxBusyHistory == 4    \* lines of the handler's screen buffer before a send key (BusySpec)

----------------------------------------------------------------------------
(* Strings *)

IsPrefix(p, s) == Len(p) <= Len(s) /\ SubSeq(s, 1, Len(p)) = p

\* strings.HasPrefix
HasPrefix(s, p) == IsPrefix(p, s)

\* strings.HasSuffix
HasSuffix(s, suf) ==
    Len(suf) <= Len(s) /\ SubSeq(s, Len(s) - Len(suf) + 1, Len(s)) = suf

Drop(s, n) == SubSeq(s, n + 1, Len(s))

RECURSIVE Concat(_)
Concat(ss) == IF ss = <<>> THEN <<>> ELSE Head(ss) \o Concat(Tail(ss))

IsSpace(c) == c \in {" ", "\n", "\t", "\r"}

\* strings.TrimSpace
RECURSIVE TrimLeft(_)
TrimLeft(s) == IF s # <<>> /\ IsSpace(Head(s)) THEN TrimLeft(Tail(s)) ELSE s

RECURSIVE TrimRight(_)
TrimRight(s) ==
    IF s # <<>> /\ IsSpace(s[Len(s)]) THEN TrimRight(SubSeq(s, 1, Len(s) - 1)) ELSE s

TrimSpace(s) == TrimRight(TrimLeft(s))

\* strings.Fields: the maximal runs of non-space characters
RECURSIVE FieldsFrom(_, _, _)
FieldsFrom(s, cur, acc) ==
    IF s = <<>> THEN (IF cur = <<>> THEN acc ELSE Append(acc, cur))
    ELSE IF IsSpace(Head(s))
         THEN FieldsFrom(Tail(s), <<>>, IF cur = <<>> THEN acc ELSE Append(acc, cur))
         ELSE FieldsFrom(Tail(s), Append(cur, Head(s)), acc)

Fields(s) == FieldsFrom(s, <<>>, <<>>)

\* strings.SplitN(line, ": ", 2): split at the first ": ", if there is one
ColonAt(line) ==
    {i \in 1..(Len(line) - 1) : line[i] = ":" /\ line[i + 1] = " "}

SplitN2(line) ==
    IF ColonAt(line) = {} THEN <<line>>
    ELSE LET i == CHOOSE k \in ColonAt(line) : \A j \in ColonAt(line) : k <= j
         IN  <<SubSeq(line, 1, i - 1), SubSeq(line, i + 2, Len(line))>>

\* bufio.Scanner with ScanLines: the lines of a file, without their newline;
\* a last line without newline is a line, a trailing carriage return is dropped
DropCR(line) ==
    IF line # <<>> /\ line[Len(line)] = "\r" THEN SubSeq(line, 1, Len(line) - 1)
    ELSE line

NewlinesOf(s) == {i \in 1..Len(s) : s[i] = "\n"}

\* the position of the first newline of s
FirstNewline(s) == CHOOSE i \in NewlinesOf(s) : \A j \in NewlinesOf(s) : i <= j

RECURSIVE ScanLines(_)
ScanLines(s) ==
    IF s = <<>> THEN <<>>
    ELSE IF NewlinesOf(s) = {} THEN <<DropCR(s)>>
         ELSE <<DropCR(SubSeq(s, 1, FirstNewline(s) - 1))>>
              \o ScanLines(Drop(s, FirstNewline(s)))

----------------------------------------------------------------------------
(* Conversation store: internal/context/manager.go *)

RoleUser == <<"u", "s", "e", "r">>
RoleAssistant == <<"a", "s", "s", "i", "s", "t", "a", "n", "t">>
RoleSystem == <<"s", "y", "s", "t", "e", "m">>
Roles == {RoleSystem, RoleUser, RoleAssistant}

Message(role, content) == [Role |-> role, Content |-> content, Images |-> <<>>]

SepLen == 50
Dashes == [i \in 1..SepLen |-> "-"]

\* var msgSeparator = strings.Repeat("-", 50) + "\n"
msgSeparator == Dashes \o <<"\n">>

\* config.ConversationFileExt, one path token
ConversationFileExt == <<".termai.md">>

NoFile == "NoFile"

\* the file path Save writes to
SavePath(filePath) ==
    IF HasSuffix(filePath, ConversationFileExt) THEN filePath
    ELSE filePath \o ConversationFileExt

\* what Save writes for one message
SaveRecord(msg) ==
    msg.Role \o <<":", " ">> \o msg.Content \o <<"\n">> \o msgSeparator

RECURSIVE SaveRecords(_)
SaveRecords(msgs) ==
    IF msgs = <<>> THEN <<>> ELSE SaveRecord(Head(msgs)) \o SaveRecords(Tail(msgs))

\* Manager.Save: the content of the file afterwards. A file that does not
\* exist is created; an existing file is opened with O_APPEND.
SaveFile(msgs, old) ==
    IF old = NoFile THEN SaveRecords(msgs) ELSE old \o SaveRecords(msgs)

\* Manager.Load, the scanning loop over the lines of the file.
\* The inner loop collects the lines of one message body up to a line equal
\* to msgSeparator (or the end of the file) and returns <<body, next index>>.
RECURSIVE LoadBody(_, _, _)
LoadBody(lines, k, body) ==
    IF k > Len(lines) THEN <<body, k>>
    ELSE IF lines[k] = msgSeparator THEN <<body, k + 1>>
         ELSE LoadBody(lines, k + 1, body \o <<"\n">> \o lines[k])

RECURSIVE LoadLines(_, _, _)
LoadLines(lines, i, acc) ==
    IF i > Len(lines) THEN acc
    ELSE IF lines[i] = msgSeparator THEN LoadLines(lines, i + 1, acc)
         ELSE LET parts == SplitN2(lines[i])
              IN  IF Len(parts) = 2
                  THEN LET r == LoadBody(lines, i + 1, parts[2])
                       IN  LoadLines(lines, r[2], Append(acc, Message(parts[1], r[1])))
                  ELSE LoadLines(lines, i + 1, acc)

\* Manager.Load: the error it returns, "" for none
LoadError(filePath, files) ==
    IF ~HasSuffix(filePath, ConversationFileExt) THEN "invalid file path"
    ELSE IF filePath \notin DOMAIN files \/ files[filePath] = NoFile
         THEN "conversation file does not exist"
         ELSE ""

\* Manager.Load: the messages it leaves in the manager
LoadMessages(old, filePath, files) ==
    IF LoadError(filePath, files) # "" THEN old
    ELSE LoadLines(ScanLines(files[filePath]), 1, <<>>)

----------------------------------------------------------------------------
(* Attachments: internal/fileprocessor *)

Attachment(path, type, content) ==
    [Path |-> path, Type |-> type, Content |-> content, Name |-> path]

\* The files the user can name, and what fileprocessor.ProcessFile makes of
\* each: "a" is a text file, "p" an image, "c" a code file; every other path
\* fails.
TextFileA == Attachment(<<"a">>, "text", <<"A">>)
ImageFileP == Attachment(<<"p">>, "image", <<"P">>)
CodeFileC == Attachment(<<"c">>, "code", <<"C">>)

ProcessFile(path) ==
    IF path = <<"a">> THEN <<TextFileA>>
    ELSE IF path = <<"p">> THEN <<ImageFileP>>
    ELSE IF path = <<"c">> THEN <<CodeFileC>>
    ELSE <<>>

\* fileprocessor.ProcessFiles: the attachments of the paths that succeed, in
\* order; an error only when every path fails
RECURSIVE ProcessedOf(_)
ProcessedOf(paths) ==
    IF paths = <<>> THEN <<>> ELSE ProcessFile(Head(paths)) \o ProcessedOf(Tail(paths))

FailedOf(paths) == SelectSeq(paths, LAMBDA p : ProcessFile(p) = <<>>)

ProcessFiles(paths) ==
    IF paths = <<>> THEN [attachments |-> <<>>, err |-> "", warned |-> <<>>]
    ELSE IF FailedOf(paths) # <<>> /\ ProcessedOf(paths) = <<>>
         THEN [attachments |-> <<>>, err |-> "failed to process all files",
               warned |-> <<>>]
         ELSE [attachments |-> ProcessedOf(paths), err |-> "",
               warned |-> FailedOf(paths)]

----------------------------------------------------------------------------
(* The screen buffer chatModel.messages: one entry per appended string.    *)
(* An entry keeps which ui formatter produced it and the text it was given.*)

Entry(kind, text) == [kind |-> kind, text |-> text]

Blank == Entry("blank", <<>>)                       \* ""
FormatUserMessage(t) == Entry("user", t)            \* ui.FormatUserMessage
AssistantOpen(t) == Entry("assistant", t)           \* "Assistant: " + text
AssistantFinal(t) == Entry("assistant-final", t)    \* "Assistant:\n" + formatted
FormatError(e) == Entry("error", <<e>>)             \* ui.FormatError
FormatSuccess(t) == Entry("success", <<t>>)         \* ui.FormatSuccess
InfoRender(t) == Entry("info", <<t>>)               \* ui.InfoStyle.Render
FormatSeparator == Entry("separator", <<>>)         \* ui.FormatSeparator
Welcome == Entry("welcome", <<>>)

\* chatModel.AddMessage
AddMessage(mm, entry) ==
    [mm EXCEPT !.messages = mm.messages \o <<entry, Blank>>]

----------------------------------------------------------------------------
(* The command table: cmd/chat.go chatCommands, in declaration order *)

CmdHelp == <<"/", "h", "e", "l", "p">>
CmdExit == <<"/", "e", "x", "i", "t">>
CmdQuit == <<"/", "q", "u", "i", "t">>
CmdClear == <<"/", "c", "l", "e", "a", "r">>
CmdProfile == <<"/", "p", "r", "o", "f", "i", "l", "e">>
CmdAttach == <<"/", "a", "t", "t", "a", "c", "h">>
CmdFiles == <<"/", "f", "i", "l", "e", "s">>
CmdClearFiles == <<"/", "c", "l", "e", "a", "r", "-", "f", "i", "l", "e", "s">>
CmdContext == <<"/", "c", "o", "n", "t", "e", "x", "t">>
CmdContextAdd == <<"/", "c", "o", "n", "t", "e", "x", "t", "-", "a", "d", "d">>
CmdContextRemove ==
    <<"/", "c", "o", "n", "t", "e", "x", "t", "-", "r", "e", "m", "o", "v", "e">>
CmdSave == <<"/", "s", "a", "v", "e">>
CmdLoad == <<"/", "l", "o", "a", "d">>
CmdCp == <<"/", "c", "p">>

chatCommands ==
    <<CmdHelp, CmdExit, CmdQuit, CmdClear, CmdProfile, CmdAttach, CmdFiles,
      CmdClearFiles, CmdContext, CmdContextAdd, CmdContextRemove, CmdSave,
      CmdLoad, CmdCp>>

----------------------------------------------------------------------------
(* chatModel: internal/chat/chat.go *)

NoChan == "nil"
TheChan == "chan"
NoErr == ""

\* The launch configurations: the profile's system context and the files
\* given with --file.
LaunchConfigs ==
    { [system |-> <<>>, files |-> <<>>, context |-> <<>>],
      [system |-> <<"S">>, files |-> <<TextFileA>>, context |-> <<>>] }

\* NewChatModel: the chatModel value it builds (the local m)
NewChatModel ==
    [ input |-> <<>>, messages |-> <<>>, streaming |-> FALSE,
      currentResp |-> <<>>, streamChan |-> NoChan, err |-> NoErr,
      ready |-> FALSE, suggestions |-> <<>>, selectedSuggestion |-> 0,
      showSuggestions |-> FALSE, attachedFiles |-> <<>>,
      contextFiles |-> <<>>, chatPath |-> <<>> ]

\* NewChatModel: the manager after the system context is added
NewManager(cfg) ==
    IF cfg.system # <<>> THEN <<Message(RoleSystem, cfg.system)>> ELSE <<>>

\* runChat: the value handed to tea.NewProgram. AttachFiles, AddContextFiles
\* and AddMessage act on the copy NewChatModel returned, not on the model the
\* command handler points to.
LaunchModel(cfg) ==
    AddMessage([NewChatModel EXCEPT !.attachedFiles = cfg.files,
                                    !.contextFiles = cfg.context], Welcome)

\* The configuration file config.Load reads, and the value it gives
\* Files.AutoClearAfterSend: the file's value; a missing file is created with
\* the value true
ConfigFile == <<"/", "config.yaml">>
AutoClearOff == <<"auto_clear_after_send: false">>
AutoClearAfterSend(f) == ~(ConfigFile \in DOMAIN f /\ f[ConfigFile] = AutoClearOff)

NoLast == [ev |-> "launch", kind |-> "", arg |-> <<>>]

GwIdle == [state |-> "idle", script |-> [lines |-> <<>>, end |-> "eof"], pos |-> 1, queue |-> <<>>,
           closeAfter |-> FALSE, sent |-> <<>>, request |-> <<>>]

NoWorker == <<>>

----------------------------------------------------------------------------
(* Auto-completion: internal/chat/commands.go updateSuggestions *)

Matches(input) == SelectSeq(chatCommands, LAMBDA c : HasPrefix(c, input))

CloseSuggestions(mm) ==
    [mm EXCEPT !.showSuggestions = FALSE, !.suggestions = <<>>,
               !.selectedSuggestion = 0]

updateSuggestions(mm) ==
    IF ~HasPrefix(mm.input, <<"/">>) THEN CloseSuggestions(mm)
    ELSE IF Len(Matches(mm.input)) > 0
         THEN [mm EXCEPT !.showSuggestions = TRUE,
                         !.suggestions = Matches(mm.input),
                         !.selectedSuggestion =
                             IF @ >= Len(Matches(mm.input)) THEN 0 ELSE @]
         ELSE CloseSuggestions(mm)

----------------------------------------------------------------------------
(* Command dispatcher: internal/chat/commands.go.                          *)
(* Every handler acts on hm, the model the commandHandler points to, and   *)
(* on the manager and the file system; its result is an Out record.        *)

Out(hm, c, f, clip, quit) ==
    [h |-> hm, ctx |-> c, fs |-> f, clipboard |-> clip, quit |-> quit]

FileOf(f, path) == IF path \in DOMAIN f THEN f[path] ELSE NoFile

\* Manager.Save applied to the file system
Save(c, filePath, f) ==
    (SavePath(filePath) :> SaveFile(c, FileOf(f, SavePath(filePath)))) @@ f

DefaultChatsPath == <<"/", "chats", "/">>      \* config.GetDefaultChatsPath
WorkingDir == <<"/", "cwd", "/">>              \* the directory filepath.Abs joins
ExistingDirs == {<<"d">>}                 \* directories that -d can name

\* filepath.IsAbs
IsAbs(path) == path # <<>> /\ path[1] = "/"

\* filepath.Abs
AbsPath(path) == IF IsAbs(path) THEN path ELSE WorkingDir \o path

\* utils.GetAbsolutePath: "" when the path does not exist
PathExists(path, f) ==
    \/ FileOf(f, path) # NoFile
    \/ \E d \in ExistingDirs : path = WorkingDir \o d

\* commandHandler.attach
attach(hm, args) ==
    IF args = <<>>
    THEN AddMessage(hm, FormatError("/attach requires at least one file path"))
    ELSE IF ProcessFiles(args).err # ""
         THEN AddMessage(hm, FormatError(ProcessFiles(args).err))
         ELSE AddMessage(
                [hm EXCEPT !.attachedFiles = @ \o ProcessFiles(args).attachments],
                FormatSuccess("Attached file(s)"))

\* commandHandler.listAttachments
listAttachments(hm) ==
    IF Len(hm.attachedFiles) = 0
    THEN AddMessage(hm, InfoRender("No files currently attached"))
    ELSE AddMessage(hm, Entry("info", [i \in 1..Len(hm.attachedFiles) |->
                                         hm.attachedFiles[i].Name]))

\* commandHandler.listContext
listContext(hm) ==
    IF Len(hm.contextFiles) = 0
    THEN AddMessage(hm, InfoRender("No context files loaded"))
    ELSE AddMessage(hm, Entry("info", [i \in 1..Len(hm.contextFiles) |->
                                         hm.contextFiles[i].Name]))

\* commandHandler.addContext
addContext(hm, args) ==
    IF args = <<>>
    THEN AddMessage(hm, FormatError("/context-add requires at least one file path"))
    ELSE IF ProcessFiles(args).err # ""
         THEN AddMessage(hm, FormatError(ProcessFiles(args).err))
         ELSE AddMessage(
                [hm EXCEPT !.contextFiles = @ \o ProcessFiles(args).attachments],
                FormatSuccess("Added file(s) to context"))

\* strings.Join(args, " ")
RECURSIVE JoinSpace(_)
JoinSpace(args) ==
    IF args = <<>> THEN <<>>
    ELSE IF Len(args) = 1 THEN args[1]
         ELSE args[1] \o <<" ">> \o JoinSpace(Tail(args))

RemoveAt(s, i) == SubSeq(s, 1, i - 1) \o SubSeq(s, i + 1, Len(s))

\* commandHandler.removeContext
removeContext(hm, args) ==
    IF args = <<>>
    THEN AddMessage(hm, FormatError("/context-remove requires a filename"))
    ELSE LET filename == JoinSpace(args)
             hits == {i \in 1..Len(hm.contextFiles) :
                         \/ hm.contextFiles[i].Name = filename
                         \/ hm.contextFiles[i].Path = filename}
         IN  IF hits # {}
             THEN AddMessage(
                    [hm EXCEPT !.contextFiles =
                        RemoveAt(@, CHOOSE i \in hits : \A j \in hits : i <= j)],
                    FormatSuccess("Removed from context"))
             ELSE AddMessage(hm, FormatError("file not found in context"))

\* Faulty variant of saveChat: a save under a name binds the session to the
\* file it wrote
saveChatBinding(hm, args, c, f) ==
    IF hm.chatPath # <<>> /\ Len(args) = 0
    THEN <<AddMessage(hm, FormatSuccess("Chat saved successfully")),
           Save(c, hm.chatPath, f)>>
    ELSE IF Len(args) = 0
         THEN <<AddMessage(hm, FormatError("/save requires a chat name")), f>>
         ELSE <<AddMessage([hm EXCEPT !.chatPath = DefaultChatsPath \o args[1]],
                           FormatSuccess("Conversation saved successfully")),
                Save(c, DefaultChatsPath \o args[1], f)>>

\* commandHandler.saveChat: <<the handler's model, the file system>>
saveChat(hm, args, c, f) ==
    IF hm.chatPath # <<>> /\ Len(args) = 0
    THEN <<AddMessage(hm, FormatSuccess("Chat saved successfully")),
           Save(c, hm.chatPath, f)>>
    ELSE IF Len(args) = 0
         THEN <<AddMessage(hm, FormatError("/save requires a chat name")), f>>
         ELSE IF Len(args) > 2 /\ args[2] = <<"-", "d">>
                 /\ ~PathExists(AbsPath(args[3]), f)
              THEN <<AddMessage(hm, FormatError("invalid directory path")), f>>
              ELSE LET dir == IF Len(args) > 2 /\ args[2] = <<"-", "d">>
                              THEN AbsPath(args[3]) \o <<"/">>
                              ELSE DefaultChatsPath
                   IN  <<AddMessage(hm, FormatSuccess("Conversation saved successfully")),
                         Save(c, dir \o args[1], f)>>

\* chatModel.loadConversation: the screen entries for the loaded messages
RECURSIVE LoadedEntries(_)
LoadedEntries(msgs) ==
    IF msgs = <<>> THEN <<>>
    ELSE LET msg == Head(msgs)
         IN  (IF msg.Role = RoleSystem THEN <<>>
              ELSE <<(IF msg.Role = RoleUser THEN FormatUserMessage(msg.Content)
                      ELSE IF msg.Role = RoleAssistant THEN AssistantFinal(msg.Content)
                      ELSE Blank),
                     Blank, FormatSeparator>>)
             \o LoadedEntries(Tail(msgs))

\* Faulty variant of loadConversation: the loaded messages are added to the
\* messages the manager already holds
loadConversationKeepingOld(hm, path, c, f) ==
    IF LoadError(path, f) # "" THEN <<hm, c, LoadError(path, f)>>
    ELSE <<[hm EXCEPT !.messages =
               @ \o LoadedEntries(LoadMessages(c, path, f))
                 \o <<FormatSuccess("Conversation loaded")>>],
           c \o LoadMessages(c, path, f), "">>

\* chatModel.loadConversation: <<the handler's model, the manager, the error>>
loadConversation(hm, path, c, f) ==
    IF LoadError(path, f) # "" THEN <<hm, c, LoadError(path, f)>>
    ELSE <<[hm EXCEPT !.messages =
               @ \o LoadedEntries(LoadMessages(c, path, f))
                 \o <<FormatSuccess("Conversation loaded")>>],
           LoadMessages(c, path, f), "">>

\* commandHandler.LoadChat: the path it resolves args[0] to
LoadPath(arg, f) ==
    LET path == arg \o ConversationFileExt
    IN  IF ~IsAbs(path) /\ FileOf(f, DefaultChatsPath \o path) # NoFile
        THEN DefaultChatsPath \o path
        ELSE path

\* Faulty variant of LoadChat: the session is bound to the path whether or
\* not the load succeeded
LoadChatBindingAlways(hm, args, c, f) ==
    IF Len(args) = 0
    THEN <<AddMessage(hm, FormatError("/load requires a chat file path")), c>>
    ELSE IF ~PathExists(AbsPath(LoadPath(args[1], f)), f)
         THEN <<AddMessage([hm EXCEPT !.chatPath = AbsPath(LoadPath(args[1], f))],
                           FormatError("invalid file path")), c>>
         ELSE LET absPath == AbsPath(LoadPath(args[1], f))
                  r == loadConversation(hm, absPath, c, f)
              IN  IF r[3] # ""
                  THEN <<AddMessage([r[1] EXCEPT !.chatPath = absPath],
                                    FormatError("failed to load chat")), r[2]>>
                  ELSE <<[r[1] EXCEPT !.chatPath = absPath], r[2]>>

\* commandHandler.LoadChat: <<the handler's model, the manager>>
LoadChat(hm, args, c, f) ==
    IF Len(args) = 0
    THEN <<AddMessage(hm, FormatError("/load requires a chat file path")), c>>
    ELSE IF ~PathExists(AbsPath(LoadPath(args[1], f)), f)
         THEN <<AddMessage(hm, FormatError("invalid file path")), c>>
         ELSE LET absPath == AbsPath(LoadPath(args[1], f))
                  r == loadConversation(hm, absPath, c, f)
              IN  IF r[3] # ""
                  THEN <<AddMessage(r[1], FormatError("failed to load chat")), r[2]>>
                  ELSE <<[r[1] EXCEPT !.chatPath = absPath], r[2]>>

\* commandHandler.copyLastAssistantMessage: the text it copies, <<>> for none
LastAssistantText(c) ==
    LET idx == {i \in 1..Len(c) : c[i].Role = RoleAssistant}
    IN  IF idx = {} THEN <<>>
        ELSE c[CHOOSE i \in idx : \A j \in idx : j <= i].Content

copyLastAssistantMessage(c, clip) ==
    IF LastAssistantText(c) # <<>> THEN LastAssistantText(c) ELSE clip

\* commandHandler.handle, for everything but /exit and /quit: the handler's
\* model before the closing textarea.Reset
handleSwitch(hm, command, args, c, f, clip) ==
    CASE command = CmdClear ->
            Out(AddMessage(hm, FormatSuccess("Conversation context cleared")),
                <<>>, f, clip, FALSE)
      [] command = CmdProfile ->
            Out(AddMessage(hm, InfoRender("Current Profile")), c, f, clip, FALSE)
      [] command = CmdAttach -> Out(attach(hm, args), c, f, clip, FALSE)
      [] command = CmdFiles -> Out(listAttachments(hm), c, f, clip, FALSE)
      [] command = CmdClearFiles ->
            Out(AddMessage([hm EXCEPT !.attachedFiles = <<>>],
                           FormatSuccess("Cleared attached file(s)")),
                c, f, clip, FALSE)
      [] command = CmdContext -> Out(listContext(hm), c, f, clip, FALSE)
      [] command = CmdContextAdd -> Out(addContext(hm, args), c, f, clip, FALSE)
      [] command = CmdContextRemove -> Out(removeContext(hm, args), c, f, clip, FALSE)
      [] command = CmdSave ->
            Out(saveChat(hm, args, c, f)[1], c, saveChat(hm, args, c, f)[2], clip, FALSE)
      [] command = CmdLoad ->
            Out(LoadChat(hm, args, c, f)[1], LoadChat(hm, args, c, f)[2], f, clip, FALSE)
      [] command = CmdCp -> Out(hm, c, f, copyLastAssistantMessage(c, clip), FALSE)
      [] command = CmdHelp ->
            Out(AddMessage(hm, InfoRender("Available commands")), c, f, clip, FALSE)
      [] OTHER ->
            Out(AddMessage(hm, FormatError("unknown command")), c, f, clip, FALSE)

\* commandHandler.handle
handle(hm, cmd, c, f, clip) ==
    LET parts == Fields(cmd)
    IN  IF Len(parts) = 0 THEN Out(hm, c, f, clip, FALSE)
        ELSE IF parts[1] \in {CmdExit, CmdQuit} THEN Out(hm, c, f, clip, TRUE)
             ELSE LET r == handleSwitch(hm, parts[1], Tail(parts), c, f, clip)
                  IN  [r EXCEPT !.h.input = <<>>]

----------------------------------------------------------------------------
(* chatModel.Update: internal/chat/chat.go.                                *)
(* Each case is an operator from the model the runtime holds (mm), the     *)
(* handler's model (hm), the manager, the file system and the clipboard to *)
(* a Res record: the model Update returns, the commands it returns, and    *)
(* whether it returns tea.Quit or panics.                                  *)

Res(mm, hm, c, f, clip, cmds, st) ==
    [m |-> mm, h |-> hm, ctx |-> c, fs |-> f, clipboard |-> clip,
     cmds |-> cmds, status |-> st]

Keep(mm, hm, c, f, clip) == Res(mm, hm, c, f, clip, <<>>, "running")

Chunk(content, thinking, done, err) ==
    [Content |-> content, Thinking |-> thinking, Done |-> done, Error |-> err]

StreamMsg(chunk, channel) == [type |-> "streamMsg", chunk |-> chunk, channel |-> channel]
ErrMsg(e) == [type |-> "errMsg", chunk |-> Chunk(<<>>, <<>>, FALSE, e), channel |-> NoChan]

\* the tea.Cmd values Update returns
StartCmd(mm) ==
    [kind |-> "start", attached |-> mm.attachedFiles, context |-> mm.contextFiles]
RecvCmd == [kind |-> "recv", attached |-> <<>>, context |-> <<>>]

\* lines 138-144: Enter while suggestions are showing accepts the selection
AcceptSuggestion(mm) ==
    [mm EXCEPT !.input = mm.suggestions[mm.selectedSuggestion + 1],
               !.showSuggestions = FALSE, !.suggestions = <<>>,
               !.selectedSuggestion = 0]

\* lines 127-130
NextSuggestion(mm) ==
    [mm EXCEPT !.selectedSuggestion = (@ + 1) % Len(mm.suggestions)]

\* lines 131-137
PrevSuggestion(mm) ==
    [mm EXCEPT !.selectedSuggestion =
        IF @ - 1 < 0 THEN Len(mm.suggestions) - 1 ELSE @ - 1]

Showing(mm) == mm.showSuggestions /\ Len(mm.suggestions) > 0

\* chatModel.handleCommand: the model it returns is the handler's
handleCommand(mm, hm, userMsg, c, f, clip) ==
    LET r == handle(hm, userMsg, c, f, clip)
    IN  Res(r.h, r.h, r.ctx, r.fs, r.clipboard, <<>>,
            IF r.quit THEN "quit" ELSE "running")

\* lines 168-182: a message is submitted
Submit(mm, userMsg) ==
    [mm EXCEPT !.messages = @ \o <<Blank, FormatUserMessage(userMsg), Blank,
                                   AssistantOpen(<<>>)>>,
               !.input = <<>>,
               !.streaming = TRUE,
               !.currentResp = <<>>]

\* Faulty variant of SendMessage: the streaming flag is not consulted
SendMessageUnguarded(mm, hm, c, f, clip) ==
    IF TrimSpace(mm.input) = <<>> THEN Keep(mm, hm, c, f, clip)
    ELSE IF HasPrefix(TrimSpace(mm.input), <<"/">>)
         THEN handleCommand(mm, hm, TrimSpace(mm.input), c, f, clip)
         ELSE Res(Submit(mm, TrimSpace(mm.input)), hm,
                  Append(c, Message(RoleUser, TrimSpace(mm.input))), f, clip,
                  <<StartCmd(Submit(mm, TrimSpace(mm.input)))>>, "running")

\* Faulty variant of SendMessage: an input of white space is submitted
SendMessageBlank(mm, hm, c, f, clip) ==
    IF mm.streaming THEN Keep(mm, hm, c, f, clip)
    ELSE IF mm.input = <<>> THEN Keep(mm, hm, c, f, clip)
    ELSE IF HasPrefix(TrimSpace(mm.input), <<"/">>)
         THEN handleCommand(mm, hm, TrimSpace(mm.input), c, f, clip)
         ELSE Res(Submit(mm, TrimSpace(mm.input)), hm,
                  Append(c, Message(RoleUser, TrimSpace(mm.input))), f, clip,
                  <<StartCmd(Submit(mm, TrimSpace(mm.input)))>>, "running")

\* Faulty variant of SendMessage: a command is dispatched before the
\* streaming flag is consulted
SendMessageCommandsFirst(mm, hm, c, f, clip) ==
    IF HasPrefix(TrimSpace(mm.input), <<"/">>)
    THEN handleCommand(mm, hm, TrimSpace(mm.input), c, f, clip)
    ELSE IF mm.streaming THEN Keep(mm, hm, c, f, clip)
    ELSE IF TrimSpace(mm.input) = <<>> THEN Keep(mm, hm, c, f, clip)
    ELSE Res(Submit(mm, TrimSpace(mm.input)), hm,
             Append(c, Message(RoleUser, TrimSpace(mm.input))), f, clip,
             <<StartCmd(Submit(mm, TrimSpace(mm.input)))>>, "running")

\* lines 151-183: Alt+Enter or Ctrl+Enter, after the suggestion block
SendMessage(mm, hm, c, f, clip) ==
    IF mm.streaming THEN Keep(mm, hm, c, f, clip)
    ELSE IF TrimSpace(mm.input) = <<>> THEN Keep(mm, hm, c, f, clip)
    ELSE IF HasPrefix(TrimSpace(mm.input), <<"/">>)
         THEN handleCommand(mm, hm, TrimSpace(mm.input), c, f, clip)
         ELSE Res(Submit(mm, TrimSpace(mm.input)), hm,
                  Append(c, Message(RoleUser, TrimSpace(mm.input))), f, clip,
                  <<StartCmd(Submit(mm, TrimSpace(mm.input)))>>, "running")

\* Update for a key that is Alt+Enter or Ctrl+Enter (type KeyEnter, which the
\* textarea does not bind when modified)
UpdateSendKey(mm, hm, c, f, clip) ==
    LET u == updateSuggestions(mm)
    IN  IF Showing(u) THEN Keep(AcceptSuggestion(u), hm, c, f, clip)
        ELSE SendMessage(u, hm, c, f, clip)

\* Faulty variant of UpdateEnter: a plain Enter is taken as the send key
UpdateEnterSending(mm, hm, c, f, clip) == UpdateSendKey(mm, hm, c, f, clip)

\* Update for a plain Enter: the textarea inserts a newline first
UpdateEnter(mm, hm, c, f, clip) ==
    LET u == updateSuggestions([mm EXCEPT !.input = @ \o <<"\n">>])
    IN  IF Showing(u) THEN Keep(AcceptSuggestion(u), hm, c, f, clip)
        ELSE Keep(u, hm, c, f, clip)

\* Update for typed runes (the textarea appends them)
UpdateRunes(mm, runes) == updateSuggestions([mm EXCEPT !.input = @ \o runes])

\* Update for a paste event: updateSuggestions is skipped
UpdatePaste(mm, runes) == [mm EXCEPT !.input = @ \o runes]

\* Update for Tab or Down
UpdateNextKey(mm) ==
    LET u == updateSuggestions(mm) IN IF Showing(u) THEN NextSuggestion(u) ELSE u

\* Update for Shift+Tab or Up
UpdatePrevKey(mm) ==
    LET u == updateSuggestions(mm) IN IF Showing(u) THEN PrevSuggestion(u) ELSE u

\* Faulty variant of UpdateCtrlC: the input buffer is reset
UpdateCtrlCResetting(mm) == [updateSuggestions(mm) EXCEPT !.input = <<>>]

\* Update for Ctrl+C: tea.Quit
UpdateCtrlC(mm) == updateSuggestions(mm)

\* Update for tea.WindowSizeMsg: reads m.messages[len(m.messages)-1]
UpdateWindowSize(mm, hm, c, f, clip) ==
    LET u == updateSuggestions(mm)
    IN  IF Len(u.messages) = 0 THEN Res(u, hm, c, f, clip, <<>>, "panic")
        ELSE Keep([u EXCEPT !.ready = TRUE], hm, c, f, clip)

\* Faulty variant of ApplyContent: the delta replaces the accumulated response
ApplyContentReplacing(mm, content) ==
    [mm EXCEPT !.currentResp = content,
               !.messages = IF Len(@) > 0
                            THEN [@ EXCEPT ![Len(@)] = AssistantOpen(content)]
                            ELSE @]

\* Faulty variant of ApplyContent: every delta is shown in an entry of its own
ApplyContentAppending(mm, content) ==
    [mm EXCEPT !.currentResp = @ \o content,
               !.messages = Append(@, AssistantOpen(mm.currentResp \o content))]

\* lines 203-210: a content delta is appended to the accumulated response
\* and the last screen entry is rewritten
ApplyContent(mm, content) ==
    [mm EXCEPT !.currentResp = @ \o content,
               !.messages = IF Len(@) > 0
                            THEN [@ EXCEPT ![Len(@)] =
                                     AssistantOpen(mm.currentResp \o content)]
                            ELSE @]

\* lines 212-236: the final chunk commits the accumulated response
ApplyDone(mm) ==
    [mm EXCEPT !.streaming = FALSE,
               !.streamChan = NoChan,
               !.attachedFiles = <<>>,
               !.messages = (IF Len(@) > 0
                             THEN [@ EXCEPT ![Len(@)] = AssistantFinal(mm.currentResp)]
                             ELSE @) \o <<Blank, FormatSeparator>>]

\* Faulty variant of ApplyChunkError: the attached files are cleared as they
\* are by the final chunk
ApplyChunkErrorClearingFiles(mm, e) ==
    [mm EXCEPT !.err = e, !.streaming = FALSE, !.streamChan = NoChan,
               !.attachedFiles = <<>>,
               !.messages = Append(@, FormatError(e))]

\* Faulty variant of ApplyChunkError: the channel stays stored
ApplyChunkErrorKeepingChan(mm, e) ==
    [mm EXCEPT !.err = e, !.streaming = FALSE,
               !.messages = Append(@, FormatError(e))]

\* lines 194-201: an error chunk
ApplyChunkError(mm, e) ==
    [mm EXCEPT !.err = e, !.streaming = FALSE, !.streamChan = NoChan,
               !.messages = Append(@, FormatError(e))]

\* Faulty variant of UpdateStreamMsg: after a content chunk the stream is not
\* subscribed to again
UpdateStreamMsgOnce(mm, hm, c, f, clip, msg) ==
    LET u == updateSuggestions(mm)
        s1 == IF msg.channel # NoChan THEN [u EXCEPT !.streamChan = msg.channel] ELSE u
        s2 == IF msg.chunk.Content # <<>> THEN ApplyContent(s1, msg.chunk.Content) ELSE s1
    IN  IF msg.chunk.Error # NoErr
        THEN Keep(ApplyChunkError(s1, msg.chunk.Error), hm, c, f, clip)
        ELSE IF msg.chunk.Done
             THEN Keep(ApplyDone(s2), hm,
                       Append(c, Message(RoleAssistant, s2.currentResp)), f, clip)
             ELSE Res(s2, hm, c, f, clip,
                      IF s2.streamChan # NoChan /\ msg.chunk.Content = <<>>
                      THEN <<RecvCmd>> ELSE <<>>, "running")

\* Faulty variant of UpdateStreamMsg: every chunk subscribes to the stream
\* twice
UpdateStreamMsgTwice(mm, hm, c, f, clip, msg) ==
    LET u == updateSuggestions(mm)
        s1 == IF msg.channel # NoChan THEN [u EXCEPT !.streamChan = msg.channel] ELSE u
        s2 == IF msg.chunk.Content # <<>> THEN ApplyContent(s1, msg.chunk.Content) ELSE s1
    IN  IF msg.chunk.Error # NoErr
        THEN Keep(ApplyChunkError(s1, msg.chunk.Error), hm, c, f, clip)
        ELSE IF msg.chunk.Done
             THEN Keep(ApplyDone(s2), hm,
                       Append(c, Message(RoleAssistant, s2.currentResp)), f, clip)
             ELSE Res(s2, hm, c, f, clip,
                      IF s2.streamChan # NoChan THEN <<RecvCmd, RecvCmd>> ELSE <<>>,
                      "running")

\* lines 188-242: Update for a streamMsg
UpdateStreamMsg(mm, hm, c, f, clip, msg) ==
    LET u == updateSuggestions(mm)
        s1 == IF msg.channel # NoChan THEN [u EXCEPT !.streamChan = msg.channel] ELSE u
        s2 == IF msg.chunk.Content # <<>> THEN ApplyContent(s1, msg.chunk.Content) ELSE s1
    IN  IF msg.chunk.Error # NoErr
        THEN Keep(ApplyChunkError(s1, msg.chunk.Error), hm, c, f, clip)
        ELSE IF msg.chunk.Done
             THEN Keep(ApplyDone(s2), hm,
                       Append(c, Message(RoleAssistant, s2.currentResp)), f, clip)
             ELSE Res(s2, hm, c, f, clip,
                      IF s2.streamChan # NoChan THEN <<RecvCmd>> ELSE <<>>, "running")

\* Faulty variant of UpdateErrMsg: the streaming flag stays set
UpdateErrMsgStillStreaming(mm, hm, c, f, clip, msg) ==
    LET u == updateSuggestions(mm)
    IN  Keep([u EXCEPT !.err = msg.chunk.Error,
                       !.messages = Append(@, FormatError(msg.chunk.Error))],
             hm, c, f, clip)

\* lines 244-249: Update for an errMsg
UpdateErrMsg(mm, hm, c, f, clip, msg) ==
    LET u == updateSuggestions(mm)
    IN  Keep([u EXCEPT !.err = msg.chunk.Error, !.streaming = FALSE,
                       !.messages = Append(@, FormatError(msg.chunk.Error))],
             hm, c, f, clip)

----------------------------------------------------------------------------
(* chatModel.streamResponse: the command's goroutine *)

ContentFrom == <<"\n", "\n", "-", "-", "-", " ", "C", "o", "n", "t", "e", "n", "t",
                 " ", "f", "r", "o", "m", " ">>
DashesNl == <<" ", "-", "-", "-", "\n">>
EndOf == <<"\n", "-", "-", "-", " ", "E", "n", "d", " ", "o", "f", " ">>
DashesEnd == <<" ", "-", "-", "-">>

IsTextKind(file) == file.Type \in {"pdf", "text", "code"}

RECURSIVE MergedText(_)
MergedText(files) ==
    IF files = <<>> THEN <<>>
    ELSE (IF IsTextKind(Head(files))
          THEN ContentFrom \o Head(files).Name \o DashesNl \o Head(files).Content
               \o EndOf \o Head(files).Name \o DashesEnd
          ELSE <<>>) \o MergedText(Tail(files))

RECURSIVE MergedImages(_)
MergedImages(files) ==
    IF files = <<>> THEN <<>>
    ELSE (IF Head(files).Type = "image" THEN <<Head(files).Content>> ELSE <<>>)
         \o MergedImages(Tail(files))

\* Faulty variant of MergeAttachments: the context files come first
MergeAttachmentsContextFirst(c, attached, context) ==
    IF (Len(attached) > 0 \/ Len(context) > 0) /\ Len(c) > 0
    THEN LET allFiles == context \o attached
         IN  [c EXCEPT ![Len(c)] =
                 [@ EXCEPT !.Content = @ \o MergedText(allFiles),
                           !.Images = IF Len(MergedImages(allFiles)) > 0
                                      THEN MergedImages(allFiles) ELSE @]]
    ELSE c

\* lines 272-305: the attachments are written into the last message of the
\* slice GetMessages returns, which is the manager's own slice
MergeAttachments(c, attached, context) ==
    IF (Len(attached) > 0 \/ Len(context) > 0) /\ Len(c) > 0
    THEN LET allFiles == attached \o context
         IN  [c EXCEPT ![Len(c)] =
                 [@ EXCEPT !.Content = @ \o MergedText(allFiles),
                           !.Images = IF Len(MergedImages(allFiles)) > 0
                                      THEN MergedImages(allFiles) ELSE @]]
    ELSE c

----------------------------------------------------------------------------
(* provider.OpenAICompatible.Stream: the goroutine that reads the response *)
(* body line by line and sends chunks on the unbuffered channel.           *)

LBlank == [k |-> "blank", content |-> <<>>, thinking |-> <<>>, finish |-> FALSE]
LComment == [k |-> "comment", content |-> <<>>, thinking |-> <<>>, finish |-> FALSE]
LBad == [k |-> "bad-json", content |-> <<>>, thinking |-> <<>>, finish |-> FALSE]
LDone == [k |-> "done", content |-> <<>>, thinking |-> <<>>, finish |-> FALSE]
LNoChoices == [k |-> "no-choices", content |-> <<>>, thinking |-> <<>>, finish |-> FALSE]
LData(content, thinking, finish) ==
    [k |-> "data", content |-> content, thinking |-> thinking, finish |-> finish]

\* The response bodies the gateway can answer with: the lines, and whether
\* the body ends with EOF or with a read error.
Scripts ==
    { [lines |-> <<LData(<<"H">>, <<>>, FALSE), LBlank, LData(<<"i">>, <<>>, FALSE), LDone>>,
       end |-> "eof"],
      [lines |-> <<LComment, LData(<<>>, <<"t">>, FALSE), LData(<<"o">>, <<>>, TRUE),
                   LDone>>,
       end |-> "eof"],
      [lines |-> <<LData(<<"x">>, <<>>, FALSE), LBad>>, end |-> "err"],
      [lines |-> <<LNoChoices, LData(<<"y">>, <<>>, FALSE)>>, end |-> "eof"] }

DoneChunk == Chunk(<<>>, <<>>, TRUE, NoErr)
ErrChunk == Chunk(<<>>, <<>>, FALSE, "read error")

\* lines 178-210 of the provider: the chunks one line makes the goroutine send
LineChunks(line) ==
    IF line.k = "done" THEN <<DoneChunk>>
    ELSE IF line.k = "data"
         THEN (IF line.content # <<>> \/ line.thinking # <<>>
               THEN <<Chunk(line.content, line.thinking, FALSE, NoErr)>> ELSE <<>>)
              \o (IF line.finish THEN <<DoneChunk>> ELSE <<>>)
         ELSE <<>>

\* Faulty variant of LineCloses: a finish marker does not end the stream
LineClosesOnSentinel(line) == line.k = "done"

LineCloses(line) == line.k = "done" \/ (line.k = "data" /\ line.finish)

\* one iteration of the goroutine's loop, up to its first channel send
StreamRead(g) ==
    IF g.pos > Len(g.script.lines)
    THEN IF g.script.end = "err"
         THEN [g EXCEPT !.queue = <<ErrChunk>>, !.closeAfter = TRUE]
         ELSE [g EXCEPT !.state = "closed"]
    ELSE [g EXCEPT !.pos = @ + 1,
                   !.queue = LineChunks(g.script.lines[g.pos]),
                   !.closeAfter = LineCloses(g.script.lines[g.pos])]

\* a channel send completes: the chunk is handed to the receiver; after the
\* last chunk of a terminal line the goroutine returns and closes the channel
StreamSend(g) ==
    [g EXCEPT !.queue = Tail(@),
              !.sent = Append(@, Head(g.queue)),
              !.state = IF Len(g.queue) = 1 /\ g.closeAfter THEN "closed" ELSE @]

\* Stream returns a channel: the goroutine starts
StreamOpen(script, request) ==
    [state |-> "open", script |-> script, pos |-> 1, queue |-> <<>>,
     closeAfter |-> FALSE, sent |-> <<>>, request |-> request]

----------------------------------------------------------------------------
(* The session as a state machine *)

\* An environment of the session: the launch configurations, the files on
\* disk at launch, what the user types (a key event appends the runes that
\* lead from the input to one of the typed strings) and pastes, and the
\* response bodies the gateway answers with.
InitOf(configs, files) ==
    /\ \E cfg \in configs :
          /\ m = LaunchModel(cfg)
          /\ ctx = NewManager(cfg)
    /\ h = NewChatModel
    /\ fs \in files
    /\ gw = GwIdle
    /\ worker = NoWorker
    /\ inbox = <<>>
    /\ status = "running"
    /\ clipboard = <<>>
    /\ last = NoLast

\* the runtime stores what Update returned and starts the commands
Apply(r) ==
    /\ m' = r.m
    /\ h' = r.h
    /\ ctx' = r.ctx
    /\ fs' = r.fs
    /\ clipboard' = r.clipboard
    /\ worker' = worker \o r.cmds
    /\ status' = r.status

Event(ev, kind) == [ev |-> ev, kind |-> kind, arg |-> <<>>]

\* which branch a send key takes
SendKind(mm) ==
    LET u == updateSuggestions(mm)
    IN  IF Showing(u) THEN "accept"
        ELSE IF u.streaming THEN "ignored"
        ELSE IF TrimSpace(u.input) = <<>> THEN "empty"
        ELSE IF HasPrefix(TrimSpace(u.input), <<"/">>) THEN "command"
        ELSE "submit"

KeyRunes(typed) ==
    /\ status = "running"
    /\ \E v \in typed :
          /\ IsPrefix(m.input, v) /\ v # m.input
          /\ Apply(Keep(UpdateRunes(m, Drop(v, Len(m.input))), h, ctx, fs, clipboard))
    /\ last' = Event("runes", "")
    /\ UNCHANGED <<gw, inbox>>

KeyPaste(pasted) ==
    /\ status = "running"
    /\ \E v \in pasted :
          /\ Len(m.input \o v) <= MaxInput
          /\ Apply(Keep(UpdatePaste(m, v), h, ctx, fs, clipboard))
    /\ last' = Event("paste", "")
    /\ UNCHANGED <<gw, inbox>>

KeyEnter ==
    /\ status = "running"
    /\ Cardinality({i \in 1..Len(m.input) : m.input[i] = "\n"}) + 1 < MaxInputLines
    /\ Apply(UpdateEnter(m, h, ctx, fs, clipboard))
    /\ last' = Event("enter", "")
    /\ UNCHANGED <<gw, inbox>>

\* A submission or a command is taken only while the manager and the screen
\* buffers stay within the bounds of the model.
WithinBounds(r) ==
    /\ Len(r.ctx) < MaxTranscript \/ r.cmds = <<>>
    /\ Len(r.m.messages) + 2 <= MaxScreen \/ r.cmds = <<>>
    /\ Len(r.h.messages) <= MaxScreen

KeySend ==
    /\ status = "running"
    /\ WithinBounds(UpdateSendKey(m, h, ctx, fs, clipboard))
    /\ Apply(UpdateSendKey(m, h, ctx, fs, clipboard))
    /\ last' = Event("send", SendKind(m))
    /\ UNCHANGED <<gw, inbox>>

KeyNext ==
    /\ status = "running"
    /\ Apply(Keep(UpdateNextKey(m), h, ctx, fs, clipboard))
    /\ last' = Event("next", "")
    /\ UNCHANGED <<gw, inbox>>

KeyPrev ==
    /\ status = "running"
    /\ Apply(Keep(UpdatePrevKey(m), h, ctx, fs, clipboard))
    /\ last' = Event("prev", "")
    /\ UNCHANGED <<gw, inbox>>

KeyCtrlC ==
    /\ status = "running"
    /\ Apply(Res(UpdateCtrlC(m), h, ctx, fs, clipboard, <<>>, "quit"))
    /\ last' = Event("ctrl-c", "")
    /\ UNCHANGED <<gw, inbox>>

WindowSize ==
    /\ status = "running"
    /\ Apply(UpdateWindowSize(m, h, ctx, fs, clipboard))
    /\ last' = Event("resize", "")
    /\ UNCHANGED <<gw, inbox>>

\* the event loop takes the next delivered message
HandleMsg ==
    /\ status = "running"
    /\ inbox # <<>>
    /\ IF Head(inbox).type = "streamMsg"
       THEN Apply(UpdateStreamMsg(m, h, ctx, fs, clipboard, Head(inbox)))
       ELSE Apply(UpdateErrMsg(m, h, ctx, fs, clipboard, Head(inbox)))
    /\ inbox' = Tail(inbox)
    /\ last' = Event(Head(inbox).type,
                     IF Head(inbox).chunk.Error # NoErr THEN "error"
                     ELSE IF Head(inbox).chunk.Done THEN "done" ELSE "chunk")
    /\ UNCHANGED gw

\* The goroutine of streamResponse runs: it merges the attachments into the
\* manager's last message and calls provider.Stream, which fails or returns
\* a channel; then it waits for the first chunk.
WorkerStart(scripts) ==
    /\ worker # <<>>
    /\ Head(worker).kind = "start"
    /\ ctx' = MergeAttachments(ctx, Head(worker).attached, Head(worker).context)
    /\ \/ /\ inbox' = Append(inbox, ErrMsg("API error"))
          /\ worker' = Tail(worker)
          /\ UNCHANGED gw
       \/ /\ \E script \in scripts : gw' = StreamOpen(script, ctx')
          /\ worker' = <<RecvCmd>> \o Tail(worker)
          /\ UNCHANGED inbox
    /\ UNCHANGED <<m, h, fs, status, clipboard, last>>

\* chunk, ok := <-chunkChan with a chunk: the channel send and the receive
\* meet, and the command returns a streamMsg with the channel
WorkerRecv ==
    /\ worker # <<>>
    /\ Head(worker).kind = "recv"
    /\ gw.state = "open"
    /\ gw.queue # <<>>
    /\ inbox' = Append(inbox, StreamMsg(Head(gw.queue), TheChan))
    /\ gw' = StreamSend(gw)
    /\ worker' = Tail(worker)
    /\ UNCHANGED <<m, h, ctx, fs, status, clipboard, last>>

\* chunk, ok := <-chunkChan on the closed channel
WorkerRecvClosed ==
    /\ worker # <<>>
    /\ Head(worker).kind = "recv"
    /\ gw.state = "closed"
    /\ inbox' = Append(inbox, StreamMsg(DoneChunk, NoChan))
    /\ worker' = Tail(worker)
    /\ UNCHANGED <<m, h, ctx, fs, gw, status, clipboard, last>>

\* the provider's goroutine reads the next line of the response body
GwRead ==
    /\ gw.state = "open"
    /\ gw.queue = <<>>
    /\ gw' = StreamRead(gw)
    /\ UNCHANGED <<m, h, ctx, fs, worker, inbox, status, clipboard, last>>

----------------------------------------------------------------------------
(* The session with the user typing and sending messages, resizing the     *)
(* window and quitting, and the gateway streaming its answers.             *)

Typed == { <<"h">>, <<" ">> }

Init == InitOf(LaunchConfigs, {<<>>})

Next ==
    \/ KeyRunes(Typed)
    \/ KeySend
    \/ KeyCtrlC
    \/ WindowSize
    \/ HandleMsg
    \/ WorkerStart(Scripts)
    \/ WorkerRecv
    \/ WorkerRecvClosed
    \/ GwRead

Spec == Init /\ [][Next]_vars

----------------------------------------------------------------------------
(* Properties of the streaming session (Spec) *)

\* the input holds a message: not blank and not a command
HoldsMessage(mm) ==
    TrimSpace(mm.input) # <<>> /\ ~HasPrefix(TrimSpace(mm.input), <<"/">>)

\* C3: at most one outstanding completion. A send key pressed while the
\* streaming flag is set and the input holds a non-empty, non-command text
\* changes nothing: the transcript and the screen are as before, the flag
\* stays set, and no command (no second stream) is started.
C3_SendWhileStreamingIsNoOp ==
    [][(m.streaming /\ HoldsMessage(m) /\ KeySend)
       => /\ ctx' = ctx
          /\ m'.messages = m.messages
          /\ m'.input = m.input
          /\ m'.streaming
          /\ worker' = worker
          /\ gw' = gw]_vars

\* a send was ignored while a message was in the input and a stream ran
C3_Witness ==
    /\ last = Event("send", "ignored")
    /\ m.streaming
    /\ HoldsMessage(m)
    /\ gw.state = "open"

\* the content deltas among the chunks, concatenated in order
RECURSIVE ContentOf(_)
ContentOf(chunks) ==
    IF chunks = <<>> THEN <<>> ELSE Head(chunks).Content \o ContentOf(Tail(chunks))

RECURSIVE ChunksOf(_)
ChunksOf(msgs) ==
    IF msgs = <<>> THEN <<>> ELSE <<Head(msgs).chunk>> \o ChunksOf(Tail(msgs))

AssistantCount(msgs) == Cardinality({i \in 1..Len(msgs) : msgs[i].Role = RoleAssistant})

\* the event loop handles the final chunk of a stream
DoneStep ==
    /\ HandleMsg
    /\ Head(inbox).type = "streamMsg"
    /\ Head(inbox).chunk.Error = NoErr
    /\ Head(inbox).chunk.Done

\* C4: when the final chunk of a stream is handled (the gateway's final
\* marker, or the channel was closed), one assistant message is appended to
\* the transcript whose text is the concatenation of the content deltas the
\* gateway sent on this stream, nothing more is outstanding for the stream,
\* and no other step adds an assistant message.
C4_OneAssistantMessagePerStream ==
    [][/\ DoneStep =>
            /\ ctx' = Append(ctx, Message(RoleAssistant, ContentOf(gw.sent)))
            /\ ~m'.streaming
            /\ worker' = <<>>
            /\ inbox' = <<>>
       /\ ~DoneStep => AssistantCount(ctx') <= AssistantCount(ctx)]_vars

\* two completions in one session, the second after the first was committed
C4_Witness ==
    /\ last = Event("streamMsg", "done")
    /\ Len(ctx) = 4
    /\ ctx[2] = Message(RoleAssistant, <<"H", "i">>)
    /\ ctx[4] = Message(RoleAssistant, <<"y">>)

\* the stream of the current submission has been opened
StreamOpened ==
    /\ m.streaming
    /\ \A i \in 1..Len(worker) : worker[i].kind # "start"
    /\ \A i \in 1..Len(inbox) : inbox[i].type # "errMsg"

\* C5: chunk ordering. At most one pull on the stream channel is outstanding
\* and none while the event of the previous chunk waits to be handled; the
\* accumulated response followed by the content of the chunk still waiting
\* is the concatenation, in order, of the content deltas the gateway sent.
C5_ChunksInOrder ==
    /\ Len(worker) + Len(inbox) <= 1
    /\ StreamOpened => m.currentResp \o ContentOf(ChunksOf(inbox)) = ContentOf(gw.sent)

\* two deltas were sent and applied
C5_Witness ==
    /\ StreamOpened
    /\ m.currentResp = <<"H", "i">>
    /\ Len(gw.sent) = 2
    /\ worker = <<RecvCmd>>

\* the event loop handles a failure of the stream
ErrorStep == HandleMsg /\ Head(inbox).chunk.Error # NoErr

\* C6: when a stream failure is handled (the request was rejected, or an
\* error chunk arrived), the error is recorded and rendered as the last
\* screen entry, the streaming flag is cleared, no stream handle is kept and
\* nothing is outstanding; and a send key pressed after a failure with a
\* message in the input submits it and starts a completion.
C6_FailureEndsOnlyTheCompletion ==
    [][/\ ErrorStep =>
            /\ m'.err = Head(inbox).chunk.Error
            /\ m'.messages = Append(m.messages, FormatError(Head(inbox).chunk.Error))
            /\ ~m'.streaming
            /\ m'.streamChan = NoChan
            /\ worker' = <<>>
            /\ ctx' = ctx
       /\ (m.err # NoErr /\ ~m.streaming /\ HoldsMessage(m) /\ KeySend) =>
            /\ m'.streaming
            /\ ctx' = Append(ctx, Message(RoleUser, TrimSpace(m.input)))
            /\ Len(worker') = 1
            /\ worker'[1].kind = "start"]_vars

\* a message was submitted after a failure, and its stream delivers
C6_Witness ==
    /\ m.err # NoErr
    /\ StreamOpened
    /\ m.currentResp # <<>>
    /\ Len(ctx) = 2
    /\ ctx[1].Role = RoleUser
    /\ ctx[2].Role = RoleUser

\* C7: cancellation. Once the user has quit and nothing can run any more,
\* no stream is left open: the producer is not left blocked on a chunk that
\* nobody will receive.
C7_QuitClosesStream ==
    (status = "quit" /\ ~ENABLED Next) => gw.state # "open"

\* a final chunk or an error chunk
Terminal(chunk) == chunk.Done \/ chunk.Error # NoErr

\* the chunks the provider's goroutine has produced on the current stream
Emitted == gw.sent \o gw.queue

\* the response has the [DONE] sentinel or a finish marker, or its transport
\* fails
Terminates(script) ==
    \/ script.end = "err"
    \/ \E i \in 1..Len(script.lines) :
          script.lines[i].k = "done" \/ script.lines[i].finish

\* C32: a stream has at most one final or error chunk and it is the last
\* chunk produced; once it has been sent the channel is closed; a closed
\* stream produces nothing further; when the response has the sentinel or a
\* finish marker, or its transport fails, the closed stream has sent a
\* terminal chunk; blank lines and lines without the data prefix produce no
\* chunk.
C32_OneTerminalChunk ==
    [][/\ \A i \in 1..(Len(Emitted') - 1) : ~Terminal(Emitted'[i])
       /\ (gw'.sent # <<>> /\ Terminal(gw'.sent[Len(gw'.sent)])) => gw'.state = "closed"
       /\ (gw.state = "closed" /\ ~WorkerStart(Scripts)) => gw' = gw
       /\ (gw'.state = "closed" /\ Terminates(gw'.script)) =>
            gw'.sent # <<>> /\ Terminal(gw'.sent[Len(gw'.sent)])
       /\ (GwRead /\ gw.pos <= Len(gw.script.lines)
                  /\ gw.script.lines[gw.pos].k \in {"blank", "comment"}) =>
            gw'.queue = <<>> /\ gw'.sent = gw.sent /\ gw'.state = "open"]_vars

\* a response with a comment line, a thinking delta and a delta with the
\* finish marker has been streamed to its end
C32_Witness ==
    /\ gw.state = "closed"
    /\ gw.script.lines[1] = LComment
    /\ Len(gw.sent) = 3
    /\ gw.sent[3] = DoneChunk
    /\ gw.pos = 4

\* C33: while streaming is active the screen buffer ends with the one
\* in-progress assistant entry, which shows the response accumulated so far.
\* A submission appends exactly one such entry, in last place; every step
\* that starts and ends with the streaming flag set appends nothing and
\* leaves every entry but the last as it was, so a chunk update rewrites
\* only that entry.
C33_InProgressEntryIsLast ==
    [][/\ m'.streaming =>
             /\ m'.messages # <<>>
             /\ m'.messages[Len(m'.messages)] = AssistantOpen(m'.currentResp)
       /\ (~m.streaming /\ m'.streaming) =>
             /\ Len(m'.messages) = Len(m.messages) + 4
             /\ SubSeq(m'.messages, 1, Len(m.messages)) = m.messages
             /\ \A i \in (Len(m.messages) + 1)..(Len(m'.messages) - 1) :
                    m'.messages[i].kind # "assistant"
       /\ (m.streaming /\ m'.streaming) =>
             /\ Len(m'.messages) = Len(m.messages)
             /\ \A i \in 1..(Len(m.messages) - 1) :
                    m'.messages[i] = m.messages[i]]_vars

\* a second content chunk has been shown during a stream that follows a
\* failed one
C33_Witness ==
    /\ m.streaming
    /\ last = Event("streamMsg", "chunk")
    /\ m.currentResp = <<"H", "i">>
    /\ m.messages[Len(m.messages)] = AssistantOpen(<<"H", "i">>)
    /\ \E i \in 1..Len(m.messages) : m.messages[i].kind = "error"

\* C34: the stored stream channel and the streaming flag agree. A stored
\* channel means the flag is set; with the flag clear no channel is stored,
\* no command is waiting on the channel and no message of a stream is in
\* flight; the step that handles a final or an error chunk discards the
\* channel and starts no further read.
C34_HandleFollowsFlag ==
    [][/\ m'.streamChan # NoChan => m'.streaming
       /\ ~m'.streaming =>
             m'.streamChan = NoChan /\ worker' = <<>> /\ inbox' = <<>>
       /\ (HandleMsg /\ (Head(inbox).chunk.Done \/ Head(inbox).chunk.Error # NoErr)) =>
             m'.streamChan = NoChan /\ worker' = <<>>]_vars

\* an error chunk has ended a stream whose channel was stored
C34_Witness ==
    /\ last = Event("streamMsg", "error")
    /\ ~m.streaming
    /\ m.streamChan = NoChan
    /\ m.currentResp = <<"x">>
    /\ gw.state = "closed"

\* the text of the message submitted last, as the screen buffer shows it
SubmittedText(mm) ==
    LET shown == {i \in 1..Len(mm.messages) : mm.messages[i].kind = "user"}
    IN  mm.messages[CHOOSE i \in shown : \A j \in shown : j <= i].text

\* C36: when a stream failure is handled (the request was rejected, or an
\* error chunk arrived), no message is committed: the transcript is as it
\* was, its last element is the user message that starts with the submitted
\* text, no message of it holds the partial response, and the attached
\* files are kept.
C36_FailureCommitsNothing ==
    [][ErrorStep =>
          /\ ctx' = ctx
          /\ ctx' # <<>>
          /\ ctx'[Len(ctx')].Role = RoleUser
          /\ HasPrefix(ctx'[Len(ctx')].Content, SubmittedText(m))
          /\ m.currentResp # <<>> =>
                \A i \in 1..Len(ctx') : ctx'[i].Content # m.currentResp
          /\ m'.attachedFiles = m.attachedFiles]_vars

\* an error chunk has been handled after a content chunk, with a file
\* attached
C36_Witness ==
    /\ last = Event("streamMsg", "error")
    /\ m.currentResp = <<"x">>
    /\ m.attachedFiles = <<TextFileA>>
    /\ Len(ctx) = 2
    /\ ctx[2].Role = RoleUser

\* The session under fair scheduling: the goroutines of the commands and of
\* the provider run, every read of the finite response body returns, and
\* the event loop takes every message delivered to it.
LiveSpec ==
    /\ Spec
    /\ WF_vars(HandleMsg)
    /\ WF_vars(WorkerStart(Scripts))
    /\ WF_vars(WorkerRecv)
    /\ WF_vars(WorkerRecvClosed)
    /\ WF_vars(GwRead)

\* C37: a session that is streaming and is not left by the user comes to a
\* state in which the streaming flag is clear and nothing of the stream is
\* outstanding; and with the flag clear a send key on an input that holds a
\* message submits it: the flag is set and the message is in the transcript.
C37_StreamingEnds ==
    /\ m.streaming ~>
          (status = "quit" \/ (~m.streaming /\ worker = <<>> /\ inbox = <<>>))
    /\ [][(~m.streaming /\ HoldsMessage(m) /\ KeySend) =>
            /\ m'.streaming
            /\ ctx' = Append(ctx, Message(RoleUser, TrimSpace(m.input)))]_vars

\* a stream that ended by the closing of the channel, with no final marker,
\* has been left and the next message has been submitted
C37_Witness ==
    /\ m.streaming
    /\ last = Event("send", "submit")
    /\ gw.state = "closed"
    /\ gw.script.lines[1] = LNoChoices
    /\ Len(ctx) >= 3
    /\ ctx[Len(ctx) - 1] = Message(RoleAssistant, <<"y">>)

\* C29: a send key pressed while the input is empty or holds only white
\* space changes nothing: no message is appended to the transcript, no
\* command is started, the streaming flag and the screen buffer are as
\* before.
C29_EmptySendIsNoOp ==
    [][(KeySend /\ TrimSpace(m.input) = <<>>) =>
          /\ ctx' = ctx
          /\ worker' = worker
          /\ m'.streaming = m.streaming
          /\ m'.messages = m.messages
          /\ h' = h]_vars

\* the send key was pressed on an input of one space, no completion streaming
C29_Witness ==
    /\ last = Event("send", "empty")
    /\ m.input = <<" ">>
    /\ ~m.streaming
    /\ worker = <<>>

----------------------------------------------------------------------------
(* The session with the user typing messages and commands and sending      *)
(* them, and the gateway answering with a completion or a failure.         *)

CmdTyped ==
    { <<"h">>, CmdClear, CmdClear \o <<" ">>, <<"/", "z">> }

CmdScripts == { [lines |-> <<LData(<<"H">>, <<>>, FALSE)>>, end |-> "eof"] }

CmdNext ==
    \/ KeyRunes(CmdTyped)
    \/ KeySend
    \/ HandleMsg
    \/ WorkerStart(CmdScripts)
    \/ WorkerRecv
    \/ WorkerRecvClosed
    \/ GwRead

CmdSpec == Init /\ [][CmdNext]_vars

----------------------------------------------------------------------------
(* The same session, launched with a profile that defines a system context *)

SystemInit ==
    InitOf({[system |-> <<"S">>, files |-> <<TextFileA>>, context |-> <<>>]}, {<<>>})

SystemSpec == SystemInit /\ [][CmdNext]_vars

\* the request a starting completion sends to the gateway
RequestOf(c) == MergeAttachments(c, Head(worker).attached, Head(worker).context)

\* C40: with a system context defined by the profile, every request sent to
\* the gateway, whether the gateway answers it with a stream or rejects it,
\* has the system message as its first message.
C40_RequestsCarrySystemContext ==
    [][WorkerStart(CmdScripts) =>
          /\ RequestOf(ctx) # <<>>
          /\ RequestOf(ctx)[1] = Message(RoleSystem, <<"S">>)]_vars

----------------------------------------------------------------------------
(* Properties of command dispatch (CmdSpec) *)

\* the send key dispatches the input as a command
CommandStep == KeySend /\ SendKind(m) = "command"

\* the command word of the input
CommandWord(mm) == Fields(TrimSpace(mm.input))[1]

IsDeclared(word) == \E i \in 1..Len(chatCommands) : chatCommands[i] = word

ErrorCount(screen) == Cardinality({i \in 1..Len(screen) : screen[i].kind = "error"})

\* C8: an unrecognized command leaves the transcript, the ephemeral
\* attachment set and the context attachment set as they were, and adds
\* exactly one error line to the screen buffer.
C8_UnknownCommandFrame ==
    [][(CommandStep /\ ~IsDeclared(CommandWord(m)))
       => /\ ctx' = ctx
          /\ m'.attachedFiles = m.attachedFiles
          /\ m'.contextFiles = m.contextFiles
          /\ ErrorCount(m'.messages) = ErrorCount(m.messages) + 1]_vars

\* C9: a command is evaluated against the current session state. The model
\* the event loop continues with after a command is the command's effect on
\* the model it held before it, so no field goes back to an earlier value.
C9_CommandsSeeCurrentState ==
    [][CommandStep
       => m' = handle(updateSuggestions(m), TrimSpace(m.input),
                      ctx, fs, clipboard).h]_vars

\* C10: command dispatch is reachable. When the session is not streaming and
\* the input holds exactly /clear, the send key dispatches it: the transcript
\* is empty in the resulting state.
C10_ExactCommandDispatches ==
    [][(~m.streaming /\ m.input = CmdClear /\ KeySend) => ctx' = <<>>]_vars

----------------------------------------------------------------------------
(* The conversation store on its own: messages are added to a Manager,     *)
(* which is saved to and loaded from files.                                *)

Texts ==
    { <<"a">>,
      <<"a", "\n", "b">>,
      <<"k", ":", " ", "v">> }

\* the paths Save is given: with and without the extension, one file
SaveAs == { <<"n">>, <<"n">> \o ConversationFileExt }

\* the paths Load is given: also one that is never written
LoadFrom == SaveAs \cup { <<"x">> \o ConversationFileExt }

StoreInit == InitOf({[system |-> <<>>, files |-> <<>>, context |-> <<>>]}, {<<>>})

\* Manager.AddUserMessage, AddAssistantMessage, AddSystemMessage
StoreAdd ==
    /\ Len(ctx) < MaxStoreMsgs
    /\ \E role \in Roles, text \in Texts : ctx' = Append(ctx, Message(role, text))
    /\ last' = Event("add", "")
    /\ UNCHANGED <<m, h, fs, gw, worker, inbox, status, clipboard>>

\* Manager.Save
StoreSave ==
    /\ \E path \in SaveAs :
          /\ IF FileOf(fs, SavePath(path)) = NoFile THEN TRUE
             ELSE Len(ScanLines(FileOf(fs, SavePath(path)))) < MaxFileLines
          /\ fs' = Save(ctx, path, fs)
          /\ last' = [ev |-> "save",
                      kind |-> IF FileOf(fs, SavePath(path)) = NoFile
                               THEN "created" ELSE "appended",
                      arg |-> SavePath(path)]
    /\ UNCHANGED <<m, h, ctx, gw, worker, inbox, status, clipboard>>

\* Manager.Load
ManagerLoad(paths) ==
    /\ \E path \in paths :
          /\ ctx' = LoadMessages(ctx, path, fs)
          /\ last' = [ev |-> "load",
                      kind |-> IF LoadError(path, fs) = "" THEN "ok" ELSE "error",
                      arg |-> path]
    /\ UNCHANGED <<m, h, fs, gw, worker, inbox, status, clipboard>>

StoreLoad == ManagerLoad(LoadFrom)

StoreNext ==
    \/ StoreAdd
    \/ StoreSave
    \/ StoreLoad

StoreSpec == StoreInit /\ [][StoreNext]_vars

----------------------------------------------------------------------------
(* The session with attachments (AttachSpec): it is launched with two files
   and a context directory, under a configuration file that switches
   auto-clear on or off; the user attaches files, changes the context, and
   sends messages that the gateway answers, fails to answer, or breaks off. *)

AttachConfigs ==
    { [system |-> <<>>, files |-> <<TextFileA, ImageFileP>>,
       context |-> <<CodeFileC>>] }

AttachFileSystems ==
    { ConfigFile :> <<"auto_clear_after_send: true">>, ConfigFile :> AutoClearOff }

AttachTyped ==
    { <<"h">>,
      CmdAttach \o <<" ", "c", " ", "z", " ", "p">>,
      CmdContextAdd \o <<" ", "a">>,
      CmdContextRemove \o <<" ", "a">>,
      CmdCp \o <<" ">> }

AttachScripts ==
    { [lines |-> <<LData(<<"H">>, <<>>, FALSE)>>, end |-> "eof"],
      [lines |-> <<>>, end |-> "err"] }

AttachInit == InitOf(AttachConfigs, AttachFileSystems)

AttachNext ==
    \/ KeyRunes(AttachTyped)
    \/ Len(h.messages) <= MaxAttachHistory /\ KeySend
    \/ HandleMsg
    \/ WorkerStart(AttachScripts)
    \/ WorkerRecv
    \/ WorkerRecvClosed
    \/ GwRead

AttachSpec == AttachInit /\ [][AttachNext]_vars

----------------------------------------------------------------------------
(* The session while the user composes (ComposeSpec): the user types and
   pastes, presses Enter, moves through the suggestions, sends and quits,
   and the gateway answers. *)

ComposeTyped == { <<"/", "c">>, <<"h">> }

ComposePasted == { <<"o">> }

ComposeInit == InitOf({[system |-> <<>>, files |-> <<>>, context |-> <<>>]}, {<<>>})

ComposeNext ==
    \/ KeyRunes(ComposeTyped)
    \/ KeyPaste(ComposePasted)
    \/ KeyEnter
    \/ KeyNext
    \/ KeyPrev
    \/ /\ SendKind(m) \in {"command", "submit"} =>
             Len(h.messages) < MaxAttachHistory /\ Len(ctx) < MaxComposeTranscript
       /\ KeySend
    \/ KeyCtrlC
    \/ HandleMsg
    \/ WorkerStart(CmdScripts)
    \/ WorkerRecv
    \/ WorkerRecvClosed
    \/ GwRead

ComposeSpec == ComposeInit /\ [][ComposeNext]_vars

----------------------------------------------------------------------------
(* The conversation store over files that were written by hand (FileSpec):
   the store's operations, with Load applied to files that Save did not
   write. *)

\* one record whose line ends the file
UnterminatedFile == <<"u">> \o ConversationFileExt

\* two records; no separator follows the second
TwoRecordFile == <<"t">> \o ConversationFileExt

\* a line "k: v" ahead of the first record
StrayLineFile == <<"k">> \o ConversationFileExt

HandWritten ==
    (UnterminatedFile :> (RoleUser \o <<":", " ", "h", "i", "\n">>))
    @@ (TwoRecordFile :>
            (RoleUser \o <<":", " ", "a", "\n">> \o Dashes \o <<"\n">>
             \o RoleAssistant \o <<":", " ", "b", "\n">>))
    @@ (StrayLineFile :>
            (<<"k", ":", " ", "v", "\n">>
             \o RoleUser \o <<":", " ", "a", "\n">> \o Dashes \o <<"\n">>))

FileInit == InitOf({[system |-> <<>>, files |-> <<>>, context |-> <<>>]}, {HandWritten})

FileNext ==
    \/ StoreAdd
    \/ StoreSave
    \/ ManagerLoad(DOMAIN HandWritten)

FileSpec == FileInit /\ [][FileNext]_vars

----------------------------------------------------------------------------
(* The session with the user saving and loading conversations, with        *)
(* conversation files on disk at launch; the manager's Load is also called *)
(* directly, with any path.                                                *)

ChatFile(name) == DefaultChatsPath \o name \o ConversationFileExt

\* a conversation saved earlier in the default chats directory
SavedChats ==
    ChatFile(<<"n">>) :>
        SaveRecords(<<Message(RoleUser, <<"q">>), Message(RoleAssistant, <<"r">>)>>)

PersistTyped ==
    { CmdLoad \o <<" ", "n">>, CmdLoad \o <<" ", "x">>,
      CmdSave \o <<" ">>, CmdSave \o <<" ", "s">> }

\* the paths Load is given directly: a saved conversation, a path without
\* the extension, and a file that does not exist
PersistLoadFrom ==
    { ChatFile(<<"n">>), DefaultChatsPath \o <<"n">>, ChatFile(<<"x">>) }

PersistInit == InitOf(LaunchConfigs, {SavedChats})

PersistNext ==
    \/ KeyRunes(PersistTyped)
    \/ Len(h.messages) <= MaxHistory /\ KeySend
    \/ ManagerLoad(PersistLoadFrom)

PersistSpec == PersistInit /\ [][PersistNext]_vars

----------------------------------------------------------------------------
(* The session with saved conversations, in which the user loads, saves and *)
(* clears, leaves, and sends messages the gateway answers: the commands     *)
(* can be sent while an answer is streaming.                                *)

BusyTyped ==
    { CmdLoad \o <<" ", "n">>, CmdLoad \o <<" ", "x">>,
      CmdSave \o <<" ">>, CmdSave \o <<" ", "s">>,
      CmdClear \o <<" ">>, CmdExit \o <<" ">>, <<"h">> }

BusyInit == InitOf({[system |-> <<>>, files |-> <<>>, context |-> <<>>]}, {SavedChats})

BusyNext ==
    \/ KeyRunes(BusyTyped)
    \/ /\ SendKind(m) \in {"command", "submit"} => Len(h.messages) <= MaxBusyHistory
       /\ KeySend
    \/ HandleMsg
    \/ WorkerStart(CmdScripts)
    \/ WorkerRecv
    \/ WorkerRecvClosed
    \/ GwRead

BusySpec == BusyInit /\ [][BusyNext]_vars

----------------------------------------------------------------------------
(* Properties of the session with saved conversations (BusySpec) *)

\* C35: while the streaming flag is set, a send key on an input that is a
\* slash command runs no command: the transcript, the files, the screen
\* buffer, the bound path, the handler and the running commands are as
\* before, the session does not leave, and the flag stays set. So from the
\* submission to the end of its completion no file is written and that part
\* of the transcript which was there stays.
C35_CommandsIgnoredWhileStreaming ==
    [][/\ (m.streaming /\ KeySend /\ HasPrefix(TrimSpace(m.input), <<"/">>)) =>
             /\ ctx' = ctx
             /\ fs' = fs
             /\ h' = h
             /\ m'.messages = m.messages
             /\ m'.chatPath = m.chatPath
             /\ m'.streaming
             /\ worker' = worker
             /\ status' = status
       /\ m.streaming => fs' = fs /\ IsPrefix(ctx, ctx')]_vars

\* /clear has been sent while the answer to the second message was
\* streaming
C35_Witness ==
    /\ last = Event("send", "ignored")
    /\ m.streaming
    /\ TrimSpace(m.input) = CmdClear
    /\ Len(ctx) = 3
    /\ m.currentResp = <<"H">>

----------------------------------------------------------------------------
(* The session in which the window is resized between the user's copying   *)
(* of the last answer and sending of messages.                             *)

ResizeTyped == { CmdCp \o <<" ">>, <<"h">> }

ResizeNext ==
    \/ KeyRunes(ResizeTyped)
    \/ KeySend
    \/ WindowSize
    \/ HandleMsg
    \/ WorkerStart(CmdScripts)
    \/ WorkerRecv
    \/ WorkerRecvClosed
    \/ GwRead

ResizeSpec == Init /\ [][ResizeNext]_vars

\* C38: a window resize can be handled in every reachable state: the screen
\* buffer, whose last element the resize handler reads, is never empty, and
\* no resize ends the program with an index out of range.
C38_ResizeIsAlwaysHandled == m.messages # <<>> /\ status # "panic"

----------------------------------------------------------------------------
(* Properties of saving and loading in the session (PersistSpec) *)

\* the arguments of the command in the input
CommandArgs(mm) == Tail(Fields(TrimSpace(mm.input)))

\* the send key dispatches /load with a path
LoadCommandStep ==
    CommandStep /\ CommandWord(m) = CmdLoad /\ CommandArgs(m) # <<>>

\* the file /load resolves its argument to
LoadTarget(mm, f) == AbsPath(LoadPath(CommandArgs(mm)[1], f))

\* /load cannot load: the path does not exist, or Load rejects it
LoadFails(mm, f) ==
    ~PathExists(LoadTarget(mm, f), f) \/ LoadError(LoadTarget(mm, f), f) # ""

\* the line a command rendered last (AddMessage follows it with a blank)
LastLine(mm) == mm.messages[Len(mm.messages) - 1]

\* C11: a load that fails, as the /load command or as a direct call of the
\* manager's Load with a wrong extension or a missing file, leaves the
\* transcript as it was; the command also leaves the bound path as it was
\* and renders an error.
C11_FailedLoadChangesNothing ==
    [][/\ (LoadCommandStep /\ LoadFails(m, fs)) =>
            /\ ctx' = ctx
            /\ m'.chatPath = m.chatPath
            /\ LastLine(m').kind = "error"
       /\ (ManagerLoad(PersistLoadFrom) /\ last'.kind = "error") => ctx' = ctx]_vars

\* with a conversation loaded and bound, /load of a missing file was
\* refused, and then a direct Load of a path without the extension
C11_Witness ==
    /\ last = [ev |-> "load", kind |-> "error", arg |-> DefaultChatsPath \o <<"n">>]
    /\ m.chatPath = ChatFile(<<"n">>)
    /\ ctx # <<>>
    /\ LastLine(m) = FormatError("invalid file path")

\* the send key dispatches /save without a name
SaveUnnamedStep ==
    CommandStep /\ CommandWord(m) = CmdSave /\ CommandArgs(m) = <<>>

\* the files other than the one at path are the same in f and g
SameButAt(f, g, path) ==
    /\ DOMAIN g = DOMAIN f \cup {path}
    /\ \A q \in DOMAIN f \ {path} : g[q] = f[q]

\* C12: a successful /load replaces the transcript by the messages parsed
\* from the file and binds the session to the file's path; /save without a
\* name then writes the serialized transcript to the bound path and to no
\* other file; /save without a name while no path is bound writes nothing
\* and renders an error.
C12_LoadBindsAndSaveReusesPath ==
    [][/\ (LoadCommandStep /\ ~LoadFails(m, fs)) =>
            /\ ctx' = LoadLines(ScanLines(fs[LoadTarget(m, fs)]), 1, <<>>)
            /\ m'.chatPath = LoadTarget(m, fs)
            /\ fs' = fs
       /\ (SaveUnnamedStep /\ m.chatPath # <<>>) =>
            /\ SameButAt(fs, fs', m.chatPath)
            /\ HasSuffix(fs'[m.chatPath], SaveRecords(ctx))
            /\ ctx' = ctx
            /\ m'.chatPath = m.chatPath
       /\ (SaveUnnamedStep /\ m.chatPath = <<>>) =>
            /\ fs' = fs
            /\ LastLine(m').kind = "error"]_vars

\* a conversation was loaded and then saved without a name
C12_Witness ==
    /\ last = Event("send", "command")
    /\ m.chatPath = ChatFile(<<"n">>)
    /\ LastLine(m) = FormatSuccess("Chat saved successfully")
    /\ HasSuffix(fs[ChatFile(<<"n">>)], SaveRecords(ctx))
    /\ ctx # <<>>

----------------------------------------------------------------------------
(* The bound path in the session with saved conversations (BusySpec) *)

----------------------------------------------------------------------------
(* Properties of attachments (AttachSpec) *)

\* C15: when the final chunk of a completion is handled, the ephemeral
\* attachment set becomes empty if the configuration enables
\* auto-clear-after-send, and stays as it was if the configuration disables it.
C15_AutoClearFollowsConfiguration ==
    [][DoneStep =>
          m'.attachedFiles = IF AutoClearAfterSend(fs) THEN <<>> ELSE m.attachedFiles]_vars

\* C16: the context attachment set changes only in a step that dispatches
\* /context-add or /context-remove: a submission, a content chunk, a final
\* chunk, an error and every other command leave it as it was.
C16_ContextChangesOnlyByItsCommands ==
    [][m'.contextFiles # m.contextFiles =>
          CommandStep /\ CommandWord(m) \in {CmdContextAdd, CmdContextRemove}]_vars

\* the send key dispatches /attach with paths of which some fail
AttachFailingStep ==
    /\ CommandStep
    /\ CommandWord(m) = CmdAttach
    /\ FailedOf(CommandArgs(m)) # <<>>

\* C17: after /attach with paths of which some are processed and some fail,
\* the ephemeral attachment set is the set before the command followed by
\* the processed files in argument order.
C17_PartialAttachKeepsSuccesses ==
    [][(AttachFailingStep /\ ProcessedOf(CommandArgs(m)) # <<>>) =>
          m'.attachedFiles = m.attachedFiles \o ProcessedOf(CommandArgs(m))]_vars

\* C18: /attach with a path that fails renders an error in the screen
\* buffer, also when other paths of the command are processed: among the
\* lines the command adds there is an error line.
C18_FailedAttachRendersError ==
    [][AttachFailingStep =>
          \E i \in DOMAIN m'.messages :
              i > Len(h.messages) /\ m'.messages[i].kind = "error"]_vars

\* a file's content between the delimiters that name the file
Delimited(file) ==
    ContentFrom \o file.Name \o DashesNl \o file.Content \o EndOf \o file.Name
    \o DashesEnd

TextPart(files) ==
    LET t == SelectSeq(files, IsTextKind)
    IN  Concat([i \in 1..Len(t) |-> Delimited(t[i])])

ImagePart(files) ==
    LET g == SelectSeq(files, LAMBDA file : file.Type = "image")
    IN  [i \in 1..Len(g) |-> g[i].Content]

\* the goroutine of streamResponse calls the gateway and a stream opens
RequestStep == WorkerStart(AttachScripts) /\ worker' # <<>> /\ Head(worker') = RecvCmd

C20_MergeIsIdempotent ==
    [][WorkerStart(AttachScripts) =>
          /\ m'.attachedFiles = m.attachedFiles
          /\ m'.contextFiles = m.contextFiles
          /\ MergeAttachments(ctx', Head(worker).attached, Head(worker).context) = ctx']_vars

\* C21: the text of a user message of the transcript is never modified: in
\* every step, each user message the transcript holds has the same text
\* afterwards, also when the attachments are merged into the request.
C21_UserTextIsNeverModified ==
    [][\A i \in DOMAIN ctx :
          ctx[i].Role = RoleUser =>
              i \in DOMAIN ctx' /\ ctx'[i].Content = ctx[i].Content]_vars

\* the send key dispatches /context-remove with a name
ContextRemoveStep ==
    CommandStep /\ CommandWord(m) = CmdContextRemove /\ CommandArgs(m) # <<>>

\* the context attachments the name matches, by name or by path
NamedBy(files, name) ==
    {i \in 1..Len(files) : files[i].Name = name \/ files[i].Path = name}

\* C27: /context-remove with a name that is the name or the path of a
\* context attachment removes the first such entry and keeps the others in
\* order; with a name that matches no entry it leaves the context set as it
\* was and renders an error; the transcript and the ephemeral set are
\* unchanged in both cases.
C27_ContextRemoveTakesOneEntry ==
    [][ContextRemoveStep =>
          LET hits == NamedBy(m.contextFiles, JoinSpace(CommandArgs(m)))
          IN  /\ IF hits # {}
                 THEN m'.contextFiles =
                          RemoveAt(m.contextFiles,
                                   CHOOSE i \in hits : \A j \in hits : i <= j)
                 ELSE /\ m'.contextFiles = m.contextFiles
                      /\ LastLine(m').kind = "error"
              /\ ctx' = ctx
              /\ m'.attachedFiles = m.attachedFiles]_vars

\* C28: /cp copies the text of the last assistant message of the transcript
\* and leaves the transcript and both attachment sets as they were; when the
\* transcript has no assistant message the clipboard and the screen buffer
\* stay as they were.
C28_CopyChangesNothingElse ==
    [][(CommandStep /\ CommandWord(m) = CmdCp) =>
          /\ ctx' = ctx
          /\ m'.attachedFiles = m.attachedFiles
          /\ m'.contextFiles = m.contextFiles
          /\ IF LastAssistantText(ctx) # <<>>
             THEN clipboard' = LastAssistantText(ctx)
             ELSE clipboard' = clipboard /\ m'.messages = m.messages]_vars

\* C31: single writer. The steps of the worker, which calls the gateway and
\* pulls the chunks, and of the gateway's reader write nothing to the
\* session: the transcript, the session's model and the handler's model are
\* as before, and what the worker produces is an event for the loop.
C31_WorkerWritesNothing ==
    [][(WorkerStart(AttachScripts) \/ WorkerRecv \/ WorkerRecvClosed \/ GwRead) =>
          /\ ctx' = ctx
          /\ m' = m
          /\ h' = h]_vars

----------------------------------------------------------------------------
(* Properties of composing (ComposeSpec) *)

\* the suggestion list is what the input calls for
ListFollowsInput(mm) ==
    IF HasPrefix(mm.input, <<"/">>) /\ Matches(mm.input) # <<>>
    THEN mm.showSuggestions /\ mm.suggestions = Matches(mm.input)
    ELSE ~mm.showSuggestions /\ mm.suggestions = <<>>

\* C22: after an event that puts text into the input buffer, typed or
\* pasted, the suggestion list is the command table filtered to the commands
\* that have the input as prefix, in declaration order, when the input begins
\* with "/" and a command matches, and is closed and empty otherwise.
C22_SuggestionsFollowTheInput ==
    [][(KeyRunes(ComposeTyped) \/ KeyPaste(ComposePasted)) => ListFollowsInput(m')]_vars

\* C23: whenever the suggestion list is open the selection index is at least
\* 0 and less than the number of suggestions; with the list open, the next
\* key moves the selection from i to (i + 1) modulo that number and the
\* previous key to (i - 1) modulo that number.
C23_SelectionWrapsModuloCount ==
    [][/\ Showing(m') =>
            m'.selectedSuggestion \in 0..(Len(m'.suggestions) - 1)
       /\ (KeyNext /\ Showing(m)) =>
            m'.selectedSuggestion = (m.selectedSuggestion + 1) % Len(m.suggestions)
       /\ (KeyPrev /\ Showing(m)) =>
            m'.selectedSuggestion =
                (m.selectedSuggestion + Len(m.suggestions) - 1) % Len(m.suggestions)]_vars

\* C24: while the streaming flag is set the suggestion list is closed, and
\* the next key, the previous key and the send key change neither the
\* selection nor the input buffer.
C24_NoSuggestionsWhileStreaming ==
    [][/\ m'.streaming => ~m'.showSuggestions
       /\ (m.streaming /\ (KeyNext \/ KeyPrev \/ KeySend)) =>
            /\ m'.selectedSuggestion = m.selectedSuggestion
            /\ m'.input = m.input]_vars

\* the send key accepts a suggestion of the open list
AcceptStep == KeySend /\ SendKind(m) = "accept" /\ Showing(m)

\* C25: accepting a suggestion sets the input buffer to the selected command
\* of the open list, closes the list and resets the selection, and leaves
\* the transcript, the attachment sets and the streaming flag as they were.
C25_AcceptTakesTheSelectedCommand ==
    [][AcceptStep =>
          /\ m'.input = m.suggestions[m.selectedSuggestion + 1]
          /\ ~m'.showSuggestions
          /\ m'.suggestions = <<>>
          /\ m'.selectedSuggestion = 0
          /\ ctx' = ctx
          /\ m'.attachedFiles = m.attachedFiles
          /\ m'.contextFiles = m.contextFiles
          /\ m'.streaming = m.streaming]_vars

Starts(w) == \E i \in 1..Len(w) : w[i].kind = "start"

----------------------------------------------------------------------------
(* Properties of loading files written by hand (FileSpec) *)

\* Manager.Load has just succeeded
Loaded == last.ev = "load" /\ last.kind = "ok"

\* C13: after a successful Load every message of the transcript has the role
\* system, user or assistant; a line ahead of the first record whose prefix is
\* not one of these roles does not become a message.
C13_LoadedRolesAreRecognized ==
    Loaded => \A i \in DOMAIN ctx : ctx[i].Role \in Roles

\* the last record of each file whose last record is not followed by a
\* separator
LastRecord ==
    (UnterminatedFile :> Message(RoleUser, <<"h", "i">>))
    @@ (TwoRecordFile :> Message(RoleAssistant, <<"b">>))

\* C14: a file whose last record is a role-prefixed line followed directly by
\* the end of the file is loaded without error, and that record is the last
\* message of the transcript, with its role and its text.
C14_UnterminatedLastRecord ==
    [][\A path \in DOMAIN LastRecord :
          (last'.ev = "load" /\ last'.arg = path) =>
              /\ last'.kind = "ok"
              /\ ctx' # <<>>
              /\ ctx'[Len(ctx')] = LastRecord[path]]_vars

----------------------------------------------------------------------------
(* Properties of the conversation store (StoreSpec) *)

\* the (role, text) pairs of a transcript, in order
RoleText(msgs) == [i \in DOMAIN msgs |-> <<msgs[i].Role, msgs[i].Content>>]

\* C1: round trip. When a transcript is saved to a path where no file exists
\* and that file is loaded in the next step, the loaded transcript has the
\* same number of messages and the same (role, text) pairs in the same order.
C1_SaveLoadRoundTrip ==
    [][(/\ last.ev = "save"
        /\ last.kind = "created"
        /\ last'.ev = "load"
        /\ last'.kind = "ok"
        /\ last'.arg = last.arg)
       => RoleText(ctx') = RoleText(ctx)]_vars

\* C2: Save overwrites. Right after a Save, the file at the path holds exactly
\* the serialization of the saved transcript, each message once.
C2_SaveOverwrites ==
    last.ev = "save" => FileOf(fs, last.arg) = SaveRecords(ctx)

====
